---- MODULE Spec2Model ----
(***************************************************************************)
(* Model of src/app.py, the Qualifi Level 4 evaluator.  The file holds two *)
(* snapshots of the application: version 4.0.0 (lines 1-292, learning-     *)
(* outcome evaluation rendered by generate_pdf_result_format) and version  *)
(* 3.0.0 (lines 293-557, four weighted criteria, calculate_grade and       *)
(* generate_pdf).  Definitions of the 4.0.0 snapshot carry the suffix _v4, *)
(* those of the 3.0.0 snapshot the suffix _v3.                             *)
(*                                                                         *)
(* Numbers (scores, weighted values, totals, band limits) are held in      *)
(* hundredths: the score 35 is 3500, the weighted value 8.75 is 875.       *)
(*                                                                         *)
(* A text returned by the external service is a sequence of tokens:        *)
(*   "{" "}" "[" "]"   the structural characters                           *)
(*   " "               white space                                         *)
(*   "t"               prose that holds no brace and is no JSON            *)
(*   "~"               a code-fence marker                                 *)
(*   a key             a member name with its colon (and separating comma) *)
(*   a number literal, "s" (a string literal), "null"                      *)
(***************************************************************************)
EXTENDS Integers, Sequences, FiniteSets, TLC

VARIABLES version, GEMINI_API_KEY, clock, files, pc, req, svc, ret, resp,
          gradeIn, gradeOut

vars == <<version, GEMINI_API_KEY, clock, files, pc, req, svc, ret, resp,
          gradeIn, gradeOut>>

\* the requests the server handles
Req == {"r1", "r2"}

\* the clock (datetime.now(), in seconds) runs from 0 to MaxClock
MaxClock == 1

-----------------------------------------------------------------------------
(* JSON values, as json.loads builds them *)

Num(n) == [num |-> n]
Str(s) == [str |-> s]
Obj(f) == [obj |-> f]
List(s) == [list |-> s]
Null == [null |-> TRUE]

IsNum(v) == DOMAIN v = {"num"}
IsStr(v) == DOMAIN v = {"str"}
IsObj(v) == DOMAIN v = {"obj"}
IsList(v) == DOMAIN v = {"list"}

EmptyObj == [k \in {} |-> Null]

\* dict.get(key, default) and the `in` test on a dict
HasKey(v, k) == IsObj(v) /\ k \in DOMAIN v.obj
Get(v, k, default) == IF k \in DOMAIN v.obj THEN v.obj[k] ELSE default

-----------------------------------------------------------------------------
(* The tokens of a response text *)

\* number literals and the numbers they denote, in hundredths
NumOf == ("-5" :> -500) @@ ("0" :> 0) @@ ("70" :> 7000) @@ ("85" :> 8500)
         @@ ("100" :> 10000) @@ ("150" :> 15000)

Keys == {"Content", "Theory", "Understanding", "Presentation", "score",
         "band", "feedback", "learning_outcomes", "overall_feedback",
         "overall_grade", "outcome", "criteria", "criterion", "achieved",
         "evidence"}

\* str.strip(): leading and trailing white space removed
RECURSIVE LStrip(_)
LStrip(s) == IF s # <<>> /\ Head(s) = " " THEN LStrip(Tail(s)) ELSE s

RECURSIVE RStrip(_)
RStrip(s) ==
    IF s # <<>> /\ s[Len(s)] = " " THEN RStrip(SubSeq(s, 1, Len(s) - 1)) ELSE s

strip(s) == RStrip(LStrip(s))

\* white space between JSON tokens is skipped by the decoder
RECURSIVE SkipWs(_)
SkipWs(s) ==
    IF s = <<>> THEN <<>>
    ELSE IF Head(s) = " " THEN SkipWs(Tail(s))
    ELSE <<Head(s)>> \o SkipWs(Tail(s))

Fail == [ok |-> FALSE, val |-> Null, next |-> 0]

\* the JSON decoder: one value starting at token i
RECURSIVE ParseValue(_, _), ParseMembers(_, _, _), ParseItems(_, _, _)
ParseValue(toks, i) ==
    IF i > Len(toks) THEN Fail
    ELSE LET c == toks[i] IN
         CASE c \in DOMAIN NumOf ->
                  [ok |-> TRUE, val |-> Num(NumOf[c]), next |-> i + 1]
           [] c = "s" -> [ok |-> TRUE, val |-> Str("remote"), next |-> i + 1]
           [] c = "null" -> [ok |-> TRUE, val |-> Null, next |-> i + 1]
           [] c = "{" -> ParseMembers(toks, i + 1, EmptyObj)
           [] c = "[" -> ParseItems(toks, i + 1, <<>>)
           [] OTHER -> Fail

\* the members of an object up to its closing brace; a repeated key keeps
\* its last value
ParseMembers(toks, i, acc) ==
    IF i > Len(toks) THEN Fail
    ELSE IF toks[i] = "}" THEN [ok |-> TRUE, val |-> Obj(acc), next |-> i + 1]
    ELSE IF toks[i] \in Keys
         THEN LET r == ParseValue(toks, i + 1) IN
              IF r.ok THEN ParseMembers(toks, r.next, (toks[i] :> r.val) @@ acc)
              ELSE Fail
    ELSE Fail

\* the items of an array up to its closing bracket
ParseItems(toks, i, acc) ==
    IF i > Len(toks) THEN Fail
    ELSE IF toks[i] = "]" THEN [ok |-> TRUE, val |-> List(acc), next |-> i + 1]
    ELSE LET r == ParseValue(toks, i) IN
         IF r.ok THEN ParseItems(toks, r.next, Append(acc, r.val)) ELSE Fail

\* json.loads(text): the whole text must be one value, else JSONDecodeError
json_loads(text) ==
    LET toks == SkipWs(text)
        r == ParseValue(toks, 1)
    IN IF r.ok /\ r.next = Len(toks) + 1 THEN [ok |-> TRUE, val |-> r.val]
       ELSE [ok |-> FALSE, val |-> Null]

NoMatch == [found |-> FALSE, group |-> <<>>]

\* re.search(r'\{.*\}', text, re.DOTALL): from the first "{" to the last "}"
re_search_v4(text) ==
    LET opens == {i \in 1..Len(text) : text[i] = "{"}
        closes == {j \in 1..Len(text) : text[j] = "}"}
        starts == {i \in opens : \E j \in closes : j > i}
    IN IF starts = {} THEN NoMatch
       ELSE LET i == CHOOSE x \in starts : \A y \in starts : x <= y
                j == CHOOSE x \in closes : \A y \in closes : y <= x
            IN [found |-> TRUE, group |-> SubSeq(text, i, j)]

\* the search as it would be with the single-brace pattern r'\{.*\}'
re_search_v3_single(text) == re_search_v4(text)

\* re.search(r'\{{.*\}}', text, re.DOTALL): the pattern is not an f-string,
\* so it asks for two adjacent "{" and, later, two adjacent "}"
re_search_v3(text) ==
    LET opens == {i \in 1..(Len(text) - 1) : text[i] = "{" /\ text[i+1] = "{"}
        closes == {j \in 2..Len(text) : text[j-1] = "}" /\ text[j] = "}"}
        starts == {i \in opens : \E j \in closes : j - 1 >= i + 2}
    IN IF starts = {} THEN NoMatch
       ELSE LET i == CHOOSE x \in starts : \A y \in starts : x <= y
                j == CHOOSE x \in closes : \A y \in closes : y <= x
            IN [found |-> TRUE, group |-> SubSeq(text, i, j)]

-----------------------------------------------------------------------------
(* Version 4.0.0: the evaluation of learning outcomes *)

\* generate_fallback_evaluation() of 4.0.0: a fresh literal on every call
generate_fallback_evaluation_v4 ==
    Obj(("learning_outcomes" :> List(<<
            Obj(("outcome" :> Str("Demonstrate understanding of core concepts"))
             @@ ("criteria" :> List(<<
                    Obj(("criterion" :> Str("Explain fundamental principles"))
                     @@ ("achieved" :> Str("N"))
                     @@ ("evidence" :> Str("Unable to evaluate - Gemini AI unavailable. Manual assessment required.")))
                >>)))
        >>))
     @@ ("overall_feedback" :> Str("Automated evaluation unavailable. Please review manually."))
     @@ ("overall_grade" :> Str("Pending Review")))

\* as AfterResponse_v4 without the except clause: a JSONDecodeError leaves
\* evaluate_with_gemini
AfterResponse_v4_unguarded(text) ==
    LET result_text == strip(text)
        json_match == re_search_v4(result_text)
    IN IF json_match.found
       THEN LET parsed == json_loads(json_match.group) IN
            IF parsed.ok THEN parsed.val
            ELSE [exc |-> "JSONDecodeError", status_code |-> 0,
                  detail |-> "JSONDecodeError"]
       ELSE generate_fallback_evaluation_v4

\* as AfterResponse_v4 with the keys the parsed object lacks filled in from
\* the fallback
AfterResponse_v4_merge(text) ==
    LET result_text == strip(text)
        json_match == re_search_v4(result_text)
    IN IF json_match.found
       THEN LET parsed == json_loads(json_match.group) IN
            IF parsed.ok
            THEN Obj(parsed.val.obj @@ generate_fallback_evaluation_v4.obj)
            ELSE generate_fallback_evaluation_v4
       ELSE generate_fallback_evaluation_v4

\* evaluate_with_gemini of 4.0.0 from the point where the external call has
\* returned `text` (response.text): strip, search, parse, return
AfterResponse_v4(text) ==
    LET result_text == strip(text)
        json_match == re_search_v4(result_text)
    IN IF json_match.found
       THEN LET parsed == json_loads(json_match.group) IN
            IF parsed.ok THEN parsed.val
            ELSE generate_fallback_evaluation_v4   \* except Exception
       ELSE generate_fallback_evaluation_v4

-----------------------------------------------------------------------------
(* Version 3.0.0: four weighted criteria *)

Criteria == <<"Content", "Theory", "Understanding", "Presentation">>

\* the rubric weights of evaluate_with_gemini, in hundredths: 0.30, 0.25,
\* 0.25 and 0.20
Weight == ("Content" :> 30) @@ ("Theory" :> 25) @@ ("Understanding" :> 25)
          @@ ("Presentation" :> 20)

Criterion(score, band, weighted, feedback) ==
    Obj(("score" :> Num(score)) @@ ("band" :> Str(band))
        @@ ("weighted" :> Num(weighted)) @@ ("feedback" :> Str(feedback)))

\* the evaluation generate_fallback_evaluation returns for a short text
Insufficient ==
    Obj(("Content" :> Criterion(3500, "30-39", 1050, "Insufficient content provided."))
     @@ ("Theory" :> Criterion(3200, "30-39", 800, "Limited theoretical application."))
     @@ ("Understanding" :> Criterion(3500, "30-39", 875, "Basic understanding demonstrated."))
     @@ ("Presentation" :> Criterion(3800, "30-39", 760, "Brief presentation.")))

\* the evaluation generate_fallback_evaluation returns otherwise
Adequate ==
    Obj(("Content" :> Criterion(6200, "60-69", 1860, "Adequate coverage of content areas."))
     @@ ("Theory" :> Criterion(5800, "50-59", 1450, "Adequate theoretical framework."))
     @@ ("Understanding" :> Criterion(6400, "60-69", 1600, "Sound understanding of concepts."))
     @@ ("Presentation" :> Criterion(5500, "50-59", 1100, "Orderly presentation.")))

\* as generate_fallback_evaluation_v3 with the word count kept in a total
\* shared between calls (ninety words for every report written so far)
generate_fallback_evaluation_v3_shared(word_count) ==
    IF word_count + 90 * Cardinality(files) < 100 THEN Insufficient ELSE Adequate

\* generate_fallback_evaluation(assignment_text) of 3.0.0: the text counts
\* only through word_count = len(assignment_text.split()); a fresh literal
\* on every call
generate_fallback_evaluation_v3(word_count) ==
    IF word_count < 100 THEN Insufficient ELSE Adequate

\* evaluation[c]["weighted"] = evaluation[c]["score"] * weight: raises when
\* evaluation has no c, evaluation[c] is no dict or has no "score", or the
\* score is no number
SetWeighted(evaluation, c) ==
    IF HasKey(evaluation, c) /\ HasKey(evaluation.obj[c], "score")
       /\ IsNum(evaluation.obj[c].obj["score"])
    THEN [ok |-> TRUE,
          val |-> Obj((c :> Obj(("weighted" :>
                                 Num((evaluation.obj[c].obj["score"].num * Weight[c]) \div 100))
                                @@ evaluation.obj[c].obj))
                      @@ evaluation.obj)]
    ELSE [ok |-> FALSE, val |-> evaluation]

\* the four assignments in order; the first that raises ends the sequence
RECURSIVE Normalize(_, _)
Normalize(evaluation, i) ==
    IF i > Len(Criteria) THEN [ok |-> TRUE, val |-> evaluation]
    ELSE LET r == SetWeighted(evaluation, Criteria[i]) IN
         IF r.ok THEN Normalize(r.val, i + 1) ELSE r

\* evaluate_with_gemini of 3.0.0 from the point where the external call has
\* returned `text`
AfterResponse_v3(text, word_count) ==
    LET result_text == strip(text)
        json_match == re_search_v3(result_text)
    IN IF json_match.found
       THEN LET parsed == json_loads(json_match.group) IN
            IF parsed.ok
            THEN LET weighted == Normalize(parsed.val, 1) IN
                 IF weighted.ok THEN weighted.val
                 ELSE generate_fallback_evaluation_v3(word_count)  \* except
            ELSE generate_fallback_evaluation_v3(word_count)       \* except
       ELSE generate_fallback_evaluation_v3(word_count)

\* GRADE_BANDS, highest band first; limits in hundredths
GRADE_BANDS == <<[name |-> "Distinction", min |-> 7000, max |-> 10000],
                 [name |-> "Merit", min |-> 6000, max |-> 6900],
                 [name |-> "Pass", min |-> 4000, max |-> 5900],
                 [name |-> "FAIL", min |-> 0, max |-> 3900]>>

\* calculate_grade: the first band that holds the score, else "Ungraded"
calculate_grade(total_score) ==
    LET hits == {i \in 1..Len(GRADE_BANDS) :
                    GRADE_BANDS[i].min <= total_score
                    /\ total_score <= GRADE_BANDS[i].max}
    IN IF hits = {} THEN "Ungraded"
       ELSE GRADE_BANDS[CHOOSE i \in hits : \A j \in hits : i <= j].name

-----------------------------------------------------------------------------
(* Rendering the report *)

\* `for x in v`: the items the loop visits, or a raise (TypeError) when v
\* is not iterable.  A dict yields its keys and a str its characters, both
\* strings.
Iterate(v) ==
    CASE IsList(v) -> [ok |-> TRUE, items |-> v.list]
      [] IsObj(v) -> [ok |-> TRUE,
                      items |-> [i \in 1..Cardinality(DOMAIN v.obj) |-> Str("key")]]
      [] IsStr(v) -> [ok |-> TRUE,
                      items |-> IF v.str = "" THEN <<>> ELSE <<Str("c")>>]
      [] OTHER -> [ok |-> FALSE, items |-> <<>>]

\* one row of the table: criterion.get(...) needs a dict, the slices
\* [:60] and [:150] and len(evidence) need text
RowOk(criterion) ==
    /\ IsObj(criterion)
    /\ IsStr(Get(criterion, "criterion", Str("")))
    /\ IsStr(Get(criterion, "evidence", Str("")))

\* one learning outcome: lo.get(...) needs a dict, [:80] needs text, and
\* the criteria are enumerated
OutcomeOk(lo) ==
    /\ IsObj(lo)
    /\ IsStr(Get(lo, "outcome", Str("")))
    /\ LET rows == Iterate(Get(lo, "criteria", List(<<>>))) IN
       rows.ok /\ \A i \in 1..Len(rows.items) : RowOk(rows.items[i])

\* generate_pdf_result_format of 4.0.0 runs to pdf.output without raising
RenderOk_v4(evaluation) ==
    /\ LET los == Iterate(Get(evaluation, "learning_outcomes", List(<<>>))) IN
       los.ok /\ \A i \in 1..Len(los.items) : OutcomeOk(los.items[i])
    /\ IsStr(Get(evaluation, "overall_feedback", Str("No feedback provided")))

\* sum(data["weighted"] for data in evaluation.values()) of 3.0.0
RECURSIVE SumWeighted(_, _)
SumWeighted(f, ks) ==
    IF ks = {} THEN 0
    ELSE LET k == CHOOSE x \in ks : TRUE IN
         f[k].obj["weighted"].num + SumWeighted(f, ks \ {k})

TotalScore(evaluation) ==
    IF \A k \in DOMAIN evaluation.obj :
          /\ HasKey(evaluation.obj[k], "weighted")
          /\ IsNum(evaluation.obj[k].obj["weighted"])
    THEN [ok |-> TRUE, val |-> SumWeighted(evaluation.obj, DOMAIN evaluation.obj)]
    ELSE [ok |-> FALSE, val |-> 0]

\* generate_pdf of 3.0.0 runs to pdf.output without raising: every
\* criterion is present with its score, weighted value and feedback
RenderOk_v3(evaluation) ==
    \A i \in 1..Len(Criteria) :
        /\ HasKey(evaluation, Criteria[i])
        /\ HasKey(evaluation.obj[Criteria[i]], "score")
        /\ HasKey(evaluation.obj[Criteria[i]], "weighted")
        /\ IsNum(evaluation.obj[Criteria[i]].obj["weighted"])
        /\ HasKey(evaluation.obj[Criteria[i]], "feedback")

\* student_name.replace(' ', '_')
replace(name) == [i \in 1..Len(name) |-> IF name[i] = " " THEN "_" ELSE name[i]]

\* the name of the report file: the student's name and the second of writing
Filename(student_name, now) == [stem |-> replace(student_name), stamp |-> now]

\* pdf.output(filename): the file is created or overwritten
Output(fs, filename, owner, evaluation) ==
    {f \in fs : f.fname # filename}
        \cup {[fname |-> filename, owner |-> owner, body |-> evaluation]}

-----------------------------------------------------------------------------
(* What the environment supplies *)

\* one criterion of the 3.0.0 schema with the given score literal
Crit3(score) == <<"{", "score", score, "band", "s", "feedback", "s", "}">>

Obj3(c, t, u, p) ==
    <<"{", "Content">> \o Crit3(c) \o <<"Theory">> \o Crit3(t)
    \o <<"Understanding">> \o Crit3(u) \o <<"Presentation">> \o Crit3(p)
    \o <<"}">>

Good3 == Obj3("85", "70", "85", "70")
OutOfRange3 == Obj3("150", "-5", "85", "70")
MissingTheory3 ==
    <<"{", "Content">> \o Crit3("85") \o <<"Understanding">> \o Crit3("85")
    \o <<"Presentation">> \o Crit3("70") \o <<"}">>
MissingScore3 ==
    <<"{", "Content", "{", "band", "s", "}", "Theory">> \o Crit3("70")
    \o <<"Understanding">> \o Crit3("85") \o <<"Presentation">> \o Crit3("70")
    \o <<"}">>

\* the 4.0.0 schema: learning outcomes, overall feedback, overall grade
Row4 == <<"{", "criterion", "s", "achieved", "s", "evidence", "s", "}">>
Outcomes4 == <<"[", "{", "outcome", "s", "criteria", "[">> \o Row4 \o <<"]", "}", "]">>
Good4 ==
    <<"{", "learning_outcomes">> \o Outcomes4
    \o <<"overall_feedback", "s", "overall_grade", "s", "}">>
MissingOutcomes4 == <<"{", "overall_feedback", "s", "overall_grade", "s", "}">>
MissingGrade4 ==
    <<"{", "learning_outcomes">> \o Outcomes4 \o <<"overall_feedback", "s", "}">>
NonObjects4 ==
    <<"{", "learning_outcomes", "[", "s", "]",
      "overall_feedback", "s", "overall_grade", "s", "}">>
NullOutcomes4 ==
    <<"{", "learning_outcomes", "null",
      "overall_feedback", "s", "overall_grade", "s", "}">>

Objects == {Good3, OutOfRange3, MissingTheory3, MissingScore3,
            Good4, MissingOutcomes4, MissingGrade4, NonObjects4, NullOutcomes4,
            <<"{", "}">>}

\* the ways an answer wraps a well-formed object
Wrapped(o) ==
    {<<" ">> \o o \o <<" ">>,                      \* white space around
     <<"~", " ">> \o o \o <<" ", "~">>,            \* code fence
     <<"t", " ">> \o o,                            \* prose before
     o \o <<" ", "t", "{", "t", "}">>,             \* prose with braces after
     o \o <<" ">> \o o,                            \* a second object
     <<"{">> \o o \o <<"}">>}                      \* doubled braces

Garbage == {<<>>, <<"t">>, <<"{", "t">>, <<"}", "t", "{">>, <<"{", "t", "}">>,
            <<"{", "{", "t", "}", "}">>}

\* the texts the external service may answer with: any object or garbage,
\* and the well-formed object of the schema the prompt of v asks for, wrapped
ResponseTexts(v) ==
    Objects \cup Wrapped(IF v = "4.0.0" THEN Good4 ELSE Good3) \cup Garbage

Names == {<<"A", " ", "B">>, <<"A", "_", "B">>}

\* an uploaded text counts through len(text.strip()) and len(text.split())
Texts == {[stripped_len |-> 19, word_count |-> 4],
          [stripped_len |-> 20, word_count |-> 4],
          [stripped_len |-> 49, word_count |-> 10],
          [stripped_len |-> 50, word_count |-> 10],
          [stripped_len |-> 600, word_count |-> 100]}

Rubrics == {t \in Texts : t.stripped_len \in {19, 20}}

\* 4.0.0 reads of the assignment only its stripped length, 3.0.0 its word
\* count as well
Assignments(v) ==
    IF v = "4.0.0" THEN {t \in Texts : t.stripped_len \in {49, 50}}
    ELSE {t \in Texts : t.stripped_len >= 49}

Versions == {"4.0.0", "3.0.0"}

-----------------------------------------------------------------------------
(* The request handler *)

NoRequest == [student_name |-> <<>>,
              rubric |-> [stripped_len |-> 0, word_count |-> 0],
              assignment |-> [stripped_len |-> 0, word_count |-> 0]]
NoService == [kind |-> "none", text |-> <<>>]
NoResponse == [status |-> 0]

\* raise HTTPException(status_code=..., detail=...)
HTTPException(status_code, detail) ==
    [exc |-> "HTTPException", status_code |-> status_code, detail |-> detail]

\* any other exception raised inside the try block
Raised(kind) == [exc |-> kind, status_code |-> 0, detail |-> kind]

IsExc(v) == "exc" \in DOMAIN v

\* except Exception as e: raise HTTPException(status_code=500, detail=str(e))
\* HTTPException is itself an Exception, so the handler takes it as well
ExceptHandler(e) == [status |-> HTTPException(500, e.detail).status_code,
                     detail |-> e.detail]

\* generate_fallback_evaluation as the running version defines it
generate_fallback_evaluation(v, assignment_text) ==
    IF v = "4.0.0" THEN generate_fallback_evaluation_v4
    ELSE generate_fallback_evaluation_v3(assignment_text.word_count)

\* evaluate_with_gemini after the external call returned `text`
AfterResponse(v, text, assignment_text) ==
    IF v = "4.0.0" THEN AfterResponse_v4(text)
    ELSE AfterResponse_v3(text, assignment_text.word_count)

\* evaluate_with_gemini when the external call (or response.text) raised:
\* except Exception returns the fallback
AfterRaise(v, assignment_text) == generate_fallback_evaluation(v, assignment_text)

\* the rest of evaluate_assignment once evaluate_with_gemini has come back
\* with `evaluation`: total and grade (3.0.0), the report file, the answer.
\* Yields the response and the directory of report files.
Complete_v4(r, request, evaluation, fs, now) ==
    IF IsExc(evaluation) THEN [resp |-> ExceptHandler(evaluation), files |-> fs]
    ELSE IF ~RenderOk_v4(evaluation)
    THEN [resp |-> ExceptHandler(Raised("AttributeError")), files |-> fs]
    ELSE LET pdf_path == Filename(request.student_name, now) IN
         [resp |-> [status |-> 200, student_name |-> request.student_name,
                    evaluation |-> evaluation, pdf_url |-> pdf_path],
          files |-> Output(fs, pdf_path, r, evaluation)]

Complete_v3(r, request, evaluation, fs, now) ==
    IF IsExc(evaluation) THEN [resp |-> ExceptHandler(evaluation), files |-> fs]
    ELSE LET total_score == TotalScore(evaluation) IN
         IF ~total_score.ok
         THEN [resp |-> ExceptHandler(Raised("TypeError")), files |-> fs]
         ELSE IF ~RenderOk_v3(evaluation)
         THEN [resp |-> ExceptHandler(Raised("KeyError")), files |-> fs]
         ELSE LET pdf_path == Filename(request.student_name, now) IN
              [resp |-> [status |-> 200, student_name |-> request.student_name,
                         total_score |-> total_score.val,
                         grade |-> calculate_grade(total_score.val),
                         evaluation |-> evaluation, pdf_url |-> pdf_path],
               files |-> Output(fs, pdf_path, r, evaluation)]

Complete(v, r, request, evaluation, fs, now) ==
    IF v = "4.0.0" THEN Complete_v4(r, request, evaluation, fs, now)
    ELSE Complete_v3(r, request, evaluation, fs, now)

\* model.generate_content is a blocking call inside the event loop: while
\* one handler waits in it no other handler runs
LoopFree == \A q \in Req : pc[q] \notin {"calling", "hung"}

Init ==
    /\ version \in Versions
    /\ GEMINI_API_KEY \in BOOLEAN
    /\ clock = 0
    /\ files = {}
    /\ pc = [r \in Req |-> "idle"]
    /\ req = [r \in Req |-> NoRequest]
    /\ svc = [r \in Req |-> NoService]
    /\ ret = [r \in Req |-> Null]
    /\ resp = [r \in Req |-> NoResponse]
    /\ gradeIn = 0
    /\ gradeOut = "none"

\* POST /api/evaluate arrives; the handler runs to its first await
Submit(r) ==
    /\ pc[r] = "idle"
    /\ LoopFree
    /\ \E n \in Names, ru \in Rubrics, a \in Assignments(version) :
          req' = [req EXCEPT ![r] = [student_name |-> n,
                                     rubric |-> IF version = "4.0.0" THEN ru
                                                ELSE NoRequest.rubric,
                                     assignment |-> a]]
    /\ pc' = [pc EXCEPT ![r] = IF version = "4.0.0" THEN "read_rubric"
                               ELSE "read_assignment"]
    /\ UNCHANGED <<version, GEMINI_API_KEY, clock, files, svc, ret, resp,
                   gradeIn, gradeOut>>

\* 4.0.0: await rubric.read() has returned; the rubric is validated
RubricRead(r) ==
    /\ pc[r] = "read_rubric"
    /\ LoopFree
    /\ IF req[r].rubric.stripped_len < 20
       THEN /\ resp' = [resp EXCEPT ![r] = ExceptHandler(
                           HTTPException(400, "Rubric file is too short or empty"))]
            /\ pc' = [pc EXCEPT ![r] = "done"]
       ELSE /\ pc' = [pc EXCEPT ![r] = "read_assignment"]
            /\ UNCHANGED resp
    /\ UNCHANGED <<version, GEMINI_API_KEY, clock, files, req, svc, ret,
                   gradeIn, gradeOut>>

\* await assignment.read() has returned; the assignment is validated and
\* evaluate_with_gemini runs up to the external call, or to its end when no
\* key is configured
AssignmentRead(r) ==
    /\ pc[r] = "read_assignment"
    /\ LoopFree
    /\ IF req[r].assignment.stripped_len < 50
       THEN /\ resp' = [resp EXCEPT ![r] = ExceptHandler(
                           HTTPException(400, "Assignment text too short"))]
            /\ pc' = [pc EXCEPT ![r] = "done"]
            /\ UNCHANGED <<files, svc, ret>>
       ELSE IF ~GEMINI_API_KEY
       THEN LET evaluation == generate_fallback_evaluation(version, req[r].assignment)
                out == Complete(version, r, req[r], evaluation, files, clock)
            IN /\ svc' = [svc EXCEPT ![r] = [kind |-> "nokey", text |-> <<>>]]
               /\ ret' = [ret EXCEPT ![r] = evaluation]
               /\ resp' = [resp EXCEPT ![r] = out.resp]
               /\ files' = out.files
               /\ pc' = [pc EXCEPT ![r] = "done"]
       ELSE /\ pc' = [pc EXCEPT ![r] = "calling"]
            /\ UNCHANGED <<files, svc, ret, resp>>
    /\ UNCHANGED <<version, GEMINI_API_KEY, clock, req, gradeIn, gradeOut>>

\* the external service answers with a text; the handler runs to its end
ServiceReturn(r) ==
    /\ pc[r] = "calling"
    /\ \E text \in ResponseTexts(version) :
          LET evaluation == AfterResponse(version, text, req[r].assignment)
              out == Complete(version, r, req[r], evaluation, files, clock)
          IN /\ svc' = [svc EXCEPT ![r] = [kind |-> "text", text |-> text]]
             /\ ret' = [ret EXCEPT ![r] = evaluation]
             /\ resp' = [resp EXCEPT ![r] = out.resp]
             /\ files' = out.files
    /\ pc' = [pc EXCEPT ![r] = "done"]
    /\ UNCHANGED <<version, GEMINI_API_KEY, clock, req, gradeIn, gradeOut>>

\* the external call raises (network error, time-out reported by the
\* library, blocked answer); the handler runs to its end
ServiceRaise(r) ==
    /\ pc[r] = "calling"
    /\ LET evaluation == AfterRaise(version, req[r].assignment)
           out == Complete(version, r, req[r], evaluation, files, clock)
       IN /\ svc' = [svc EXCEPT ![r] = [kind |-> "raise", text |-> <<>>]]
          /\ ret' = [ret EXCEPT ![r] = evaluation]
          /\ resp' = [resp EXCEPT ![r] = out.resp]
          /\ files' = out.files
    /\ pc' = [pc EXCEPT ![r] = "done"]
    /\ UNCHANGED <<version, GEMINI_API_KEY, clock, req, gradeIn, gradeOut>>

\* the external service never answers: generate_content(prompt) is given no
\* timeout, so the call does not return
ServiceHang(r) ==
    /\ pc[r] = "calling"
    /\ pc' = [pc EXCEPT ![r] = "hung"]
    /\ svc' = [svc EXCEPT ![r] = [kind |-> "hang", text |-> <<>>]]
    /\ UNCHANGED <<version, GEMINI_API_KEY, clock, files, req, ret, resp,
                   gradeIn, gradeOut>>

\* a second passes
Tick ==
    /\ clock < MaxClock
    /\ clock' = clock + 1
    /\ UNCHANGED <<version, GEMINI_API_KEY, files, pc, req, svc, ret, resp,
                   gradeIn, gradeOut>>

Next ==
    \/ \E r \in Req : Submit(r)
    \/ \E r \in Req : RubricRead(r)
    \/ \E r \in Req : AssignmentRead(r)
    \/ \E r \in Req : ServiceReturn(r)
    \/ \E r \in Req : ServiceRaise(r)
    \/ \E r \in Req : ServiceHang(r)
    \/ Tick

Spec == Init /\ [][Next]_vars

\* the event loop runs every handler that can run, and the external service
\* does one of three things with a call: answer, fail, or stay silent
\* (ServiceHang, after which nothing of that request is enabled)
FairSpec ==
    /\ Spec
    /\ \A r \in Req :
          /\ WF_vars(RubricRead(r))
          /\ WF_vars(AssignmentRead(r))
          /\ WF_vars(ServiceReturn(r) \/ ServiceRaise(r) \/ ServiceHang(r))

-----------------------------------------------------------------------------
(* calculate_grade on its own, over every percentage from 0 to 100 in steps
   of one hundredth *)

InitGrade ==
    /\ version = "3.0.0"
    /\ GEMINI_API_KEY = FALSE
    /\ clock = 0
    /\ files = {}
    /\ pc = [r \in Req |-> "idle"]
    /\ req = [r \in Req |-> NoRequest]
    /\ svc = [r \in Req |-> NoService]
    /\ ret = [r \in Req |-> Null]
    /\ resp = [r \in Req |-> NoResponse]
    /\ gradeIn \in 0..10000
    /\ gradeOut = "none"

Grade ==
    /\ gradeOut = "none"
    /\ gradeOut' = calculate_grade(gradeIn)
    /\ UNCHANGED <<version, GEMINI_API_KEY, clock, files, pc, req, svc, ret,
                   resp, gradeIn>>

NextGrade == Grade

GradeSpec == InitGrade /\ [][NextGrade]_vars

TypeOK ==
    /\ version \in Versions
    /\ GEMINI_API_KEY \in BOOLEAN
    /\ clock \in 0..MaxClock
    /\ \A r \in Req : pc[r] \in {"idle", "read_rubric", "read_assignment",
                                 "calling", "hung", "done"}

-----------------------------------------------------------------------------
(* Properties *)

BandNames == {"Distinction", "Merit", "Pass", "FAIL"}

\* C1: calculate_grade is total over [0,100]: every percentage, whole or
\* not, gets one of the four named bands and never "Ungraded".
C1_GradeTotal == gradeOut # "none" => gradeOut \in BandNames

\* C2: calculate_grade gives the boundary values to the higher band (70
\* Distinction, 60 Merit, 40 Pass) and every value below 40 to the fail band.
C2_Boundaries ==
    gradeOut # "none" =>
        /\ gradeIn = 7000 => gradeOut = "Distinction"
        /\ gradeIn = 6000 => gradeOut = "Merit"
        /\ gradeIn = 4000 => gradeOut = "Pass"
        /\ gradeIn < 4000 => gradeOut = "FAIL"

\* evaluate_with_gemini has returned to the handler of r
Returned(r) == svc[r].kind \in {"nokey", "raise", "text"}

Fallback(r) == generate_fallback_evaluation(version, req[r].assignment)

Extracted(v, text) ==
    IF v = "4.0.0" THEN re_search_v4(strip(text)) ELSE re_search_v3(strip(text))

RemoteFailed(r) ==
    \/ svc[r].kind \in {"nokey", "raise"}
    \/ /\ svc[r].kind = "text"
       /\ \/ ~Extracted(version, svc[r].text).found
          \/ ~json_loads(Extracted(version, svc[r].text).group).ok

\* C4: whenever the remote attempt fails (no key, the call raises, no JSON
\* object in the answer, the extracted text does not parse)
\* evaluate_with_gemini returns exactly the fallback evaluation and no
\* exception reaches its caller.
C4_FailureGivesFallback ==
    \A r \in Req :
        RemoteFailed(r) => (~IsExc(ret[r]) /\ ret[r] = Fallback(r))

\* an answer from which text was extracted that does not parse, answered
\* with the fallback
C4_Witness ==
    \E r \in Req :
        /\ pc[r] = "done"
        /\ svc[r].kind = "text"
        /\ Extracted(version, svc[r].text).found
        /\ ~json_loads(Extracted(version, svc[r].text).group).ok
        /\ ret[r] = Fallback(r)
        /\ resp[r].status = 200

\* the keys the schema of version v requires
RequiredKeys(v) ==
    IF v = "4.0.0" THEN {"learning_outcomes", "overall_feedback", "overall_grade"}
    ELSE {"Content", "Theory", "Understanding", "Presentation"}

LacksRequiredKey(v, value) ==
    \/ ~IsObj(value)
    \/ \E k \in RequiredKeys(v) :
          \/ ~HasKey(value, k)
          \/ v = "3.0.0" /\ ~HasKey(value.obj[k], "score")

\* C5: an answer that parses as JSON but lacks a required key of the schema
\* is treated as a failure: the fallback evaluation is returned, not the
\* parsed object.
C5_MissingKeyGivesFallback ==
    \A r \in Req :
        (/\ svc[r].kind = "text"
         /\ json_loads(strip(svc[r].text)).ok
         /\ LacksRequiredKey(version, json_loads(strip(svc[r].text)).val))
        => ret[r] = Fallback(r)

\* the values that are entirely a parsed remote result: the parse of a part
\* of the answer that runs from a "{" to a "}" (4.0.0), with the four
\* weighted values added (3.0.0)
RemoteResults(v, text) ==
    LET parts == {SubSeq(text, i, j) :
                    i \in {x \in 1..Len(text) : text[x] = "{"},
                    j \in {y \in 1..Len(text) : text[y] = "}"}}
        parsed == {json_loads(p).val : p \in {q \in parts : json_loads(q).ok}}
    IN IF v = "4.0.0" THEN parsed
       ELSE {Normalize(x, 1).val : x \in {y \in parsed : Normalize(y, 1).ok}}

Rejected(r) ==
    \/ req[r].assignment.stripped_len < 50
    \/ version = "4.0.0" /\ req[r].rubric.stripped_len < 20

\* C8: an input rejected by validation is answered with a client-side error
\* (status 400), not a server-side error (status 500).
C8_ValidationIs400 ==
    \A r \in Req : (pc[r] = "done" /\ Rejected(r)) => resp[r].status = 400

\* C9: for every input that passes validation and every behaviour of the
\* external service that returns control, evaluate_assignment ends in the
\* success response carrying the evaluation.
C9_AlwaysSucceeds ==
    \A r \in Req :
        (pc[r] = "done" /\ ~Rejected(r)) =>
            (resp[r].status = 200 /\ resp[r].evaluation = ret[r])

\* C10: the external call is bounded in time: a request that has entered the
\* call eventually gets its response, also when the service never answers.
C10_EventuallyResponds ==
    \A r \in Req : (pc[r] = "calling") ~> (pc[r] = "done")

\* the first well-formed JSON object of a text: the parse of the part that
\* starts at the earliest "{" from which an object can be read
FirstObject(text) ==
    LET reads(i) == {j \in i..Len(text) : json_loads(SubSeq(text, i, j)).ok}
        starts == {i \in 1..Len(text) : text[i] = "{" /\ reads(i) # {}}
    IN IF starts = {} THEN [found |-> FALSE, val |-> Null]
       ELSE LET i == CHOOSE x \in starts : \A y \in starts : x <= y
                j == CHOOSE x \in reads(i) : \A y \in reads(i) : x <= y
            IN [found |-> TRUE, val |-> json_loads(SubSeq(text, i, j)).val]

\* the evaluation derived from a parsed object: the object itself (4.0.0),
\* with the four weighted values added (3.0.0)
DerivedFrom(v, value) == IF v = "4.0.0" THEN value ELSE Normalize(value, 1).val

\* C11: whenever the answer contains a well-formed JSON object that satisfies
\* the schema (also inside code fences, followed by text with braces, or
\* followed by a second object), the returned evaluation is derived from the
\* first such object and is not the fallback.
C11_FirstObjectReturned ==
    \A r \in Req :
        (/\ svc[r].kind = "text"
         /\ FirstObject(svc[r].text).found
         /\ ~LacksRequiredKey(version, FirstObject(svc[r].text).val))
        => /\ ret[r] = DerivedFrom(version, FirstObject(svc[r].text).val)
           /\ ret[r] # Fallback(r)

\* C12: requests do not interfere: in every interleaving of two requests,
\* also two with the same student name handled within the same second, the
\* pdf_url of each response names a report file that holds that request's
\* own evaluation; no request's report is overwritten by another request
\* (stated on the content of the file: the report is the one rendered from
\* the evaluation in the response).
C12_OwnReport ==
    \A r \in Req :
        (pc[r] = "done" /\ resp[r].status = 200) =>
            \E f \in files :
                /\ f.fname = resp[r].pdf_url
                /\ f.body = resp[r].evaluation

====
